---- MODULE Spec2Model ----
(***************************************************************************)
(* Flaky-test detector, .github/scripts/flake.py: main() runs a test       *)
(* command `iterations` times, parse_test_results() accumulates the failed *)
(* test cases of each failing iteration, and the tail of main() creates or *)
(* updates one tracking issue on the issue tracker.                        *)
(***************************************************************************)
EXTENDS Integers, Sequences, FiniteSets, TLC

\* ------------------------------------------------------------------ bounds
MaxIter == 3        \* largest value of the -i argument
MaxRuns == 2        \* invocations of the script against one tracker

\* ------------------------------------------------------- values and inputs
\* Python's None: the result of find() on a missing element, and the .text
\* of an element that has no text (<failure/>).
None == "None"

\* An XML child element of a <testcase>: absent, or present with a text.
Absent == [present |-> FALSE, text |-> None]
Elem(t) == [present |-> TRUE, text |-> t]

\* One <testcase> entry of a surefire report.
TestCase(c, n, f, e, so, se) ==
    [classname |-> c, name |-> n, failure |-> f, error |-> e,
     sysout |-> so, syserr |-> se]

\* The report entries the test command can leave behind.
AxBoom    == TestCase("A", "x", Elem("boom"), Absent, Elem("out"), Absent)
AxTimeout == TestCase("A", "x", Elem("timeout"), Absent, Absent, Elem("err"))
AxPass    == TestCase("A", "x", Absent, Absent, Elem("out"), Absent)
AxNoText  == TestCase("A", "x", Elem(None), Elem("boom"), Absent, Absent)
AzBoom    == TestCase("A", "z", Elem("boom"), Absent, Absent, Absent)
ByError   == TestCase("B", "y", Absent, Elem("boom"), Absent, Absent)
ByNoOut   == TestCase("B", "y", Elem("boom"), Absent, Elem(None), Absent)

\* Contents of target/surefire-reports/ (all TEST-*.xml files, in listdir
\* order) that a failing run of the command can write.
FailReports ==
    { <<>>, <<AxBoom>>, <<AxTimeout>>, <<AzBoom>>, <<AxNoText>>, <<ByNoOut>>,
      <<AxBoom, ByError>>, <<AxTimeout, AxTimeout>>, <<AxPass, ByError>> }

\* Contents a passing run can write: no entry carries a failure or error.
PassReports == { <<AxPass>> }

TestIds == { <<"A", "x">>, <<"A", "z">>, <<"B", "y">> }

\* ------------------------------------------------------------------- state
VARIABLES
    pc,          \* position of main(): loop, save, parse, check, list, write, done, error
    iterations,  \* args.i
    ff,          \* args.ff
    i,           \* loop counter of main()
    process,     \* result of the last subprocess.run: returncode, stdout, stderr
    results,     \* defaultdict classname -> name -> [failure details], insertion ordered
    reportDir,   \* target/surefire-reports/: exists, entries, by (execution that wrote it)
    files,       \* files under args.out_dir: name -> content
    issues,      \* the tracker's issues, in the order the list call returns them
    existing_issues, \* local of main() after the list call
    sha,         \* GITHUB_SHA of this invocation
    run,         \* ordinal of this invocation
    tracker0,    \* history: the tracker's issues before the first invocation
    execs,       \* history: loop index and exit code of every execution
    parsed,      \* history: iteration and report directory of every parser call
    calls,       \* history: tracker API calls of this invocation
    created      \* history: numbers of the issues created over all invocations

vars == <<pc, iterations, ff, i, process, results, reportDir, files, issues,
          existing_issues, sha, run, tracker0, execs, parsed, calls, created>>

\* ------------------------------------------------- results (lines 29, 100)
\* Position of key c among the classes of res, 0 when it is not a key.
ClassIndex(res, c) ==
    IF \E k \in 1..Len(res) : res[k].cls = c
    THEN CHOOSE k \in 1..Len(res) : res[k].cls = c
    ELSE 0

\* Position of key n among the cases of one class, 0 when it is not a key.
CaseIndex(cases, n) ==
    IF \E k \in 1..Len(cases) : cases[k].name = n
    THEN CHOOSE k \in 1..Len(cases) : cases[k].name = n
    ELSE 0

\* previous_results[c][n].append(rec) on the nested defaultdict: a missing
\* class or case is created at the end of its dict, the record is appended.
AppendFailure(res, c, n, rec) ==
    LET ci == ClassIndex(res, c) IN
    IF ci = 0
    THEN Append(res, [cls |-> c, cases |-> <<[name |-> n, failures |-> <<rec>>]>>])
    ELSE LET cases == res[ci].cases
             ni == CaseIndex(cases, n)
         IN IF ni = 0
            THEN [res EXCEPT ![ci].cases =
                     Append(cases, [name |-> n, failures |-> <<rec>>])]
            ELSE [res EXCEPT ![ci].cases[ni].failures = Append(@, rec)]

\* results[c][n] read without creating it: the list, or <<>> for no key.
Failures(res, c, n) ==
    LET ci == ClassIndex(res, c) IN
    IF ci = 0 THEN <<>>
    ELSE LET ni == CaseIndex(res[ci].cases, n) IN
         IF ni = 0 THEN <<>> ELSE res[ci].cases[ni].failures

\* (classname, name) is a key of results.
IsKey(res, c, n) ==
    /\ ClassIndex(res, c) # 0
    /\ CaseIndex(res[ClassIndex(res, c)].cases, n) # 0

\* ------------------------------------------------ files under args.out_dir
FileName(idx, test, kind) == [idx |-> idx, test |-> test, kind |-> kind]

\* open(name, 'w') followed by f.write(content).
WriteFile(fs, name, content) ==
    [f \in DOMAIN fs \cup {name} |-> IF f = name THEN content ELSE fs[f]]

\* ------------------------------------------ parse_test_results (82 - 112)
\* Lines 91-96: the failure text of one <testcase>, None when it has none.
FailureText(testcase) ==
    IF testcase.failure.present THEN testcase.failure.text
    ELSE IF testcase.error.present THEN testcase.error.text
    ELSE None

\* Lines 88-112: the loop over the <testcase> entries of all reports.  The
\* result holds the updated results and files and whether f.write(None)
\* raised TypeError (an element that is present but has no text); open()
\* has already truncated the file when write() raises.
RECURSIVE ParseEntries(_, _, _, _)
ParseEntries(entries, iteration, res, fs) ==
    IF entries = <<>>
    THEN [results |-> res, files |-> fs, raised |-> FALSE]
    ELSE
    LET testcase == Head(entries)
        failure  == FailureText(testcase)
        test     == <<testcase.classname, testcase.name>>
        res1     == AppendFailure(res, testcase.classname, testcase.name,
                                  [iteration |-> iteration, failure |-> failure])
        outName  == FileName(iteration, test, "stdout")
        errName  == FileName(iteration, test, "stderr")
        excName  == FileName(iteration, test, "error")
        fs1      == IF testcase.sysout.present
                    THEN WriteFile(fs, outName,
                             IF testcase.sysout.text = None
                             THEN <<>> ELSE <<testcase.sysout.text>>)
                    ELSE fs
        fs2      == IF testcase.syserr.present
                    THEN WriteFile(fs1, errName,
                             IF testcase.syserr.text = None
                             THEN <<>> ELSE <<testcase.syserr.text>>)
                    ELSE fs1
        fs3      == WriteFile(fs2, excName, <<failure>>)
    IN  IF failure = None
        THEN ParseEntries(Tail(entries), iteration, res, fs)
        ELSE IF testcase.sysout.present /\ testcase.sysout.text = None
        THEN [results |-> res1, files |-> fs1, raised |-> TRUE]
        ELSE IF testcase.syserr.present /\ testcase.syserr.text = None
        THEN [results |-> res1, files |-> fs2, raised |-> TRUE]
        ELSE ParseEntries(Tail(entries), iteration, res1, fs3)

\* parse_test_results without the test of lines 85-86: os.listdir raises
\* when the report directory does not exist.
parse_test_resultsNoExistsTest(iteration, previous_results, fs, dir) ==
    IF ~dir.exists
    THEN [results |-> previous_results, files |-> fs, raised |-> TRUE]
    ELSE ParseEntries(dir.entries, iteration, previous_results, fs)

\* Lines 82-86: nothing happens when the report directory does not exist.
parse_test_results(iteration, previous_results, fs, dir) ==
    IF ~dir.exists
    THEN [results |-> previous_results, files |-> fs, raised |-> FALSE]
    ELSE ParseEntries(dir.entries, iteration, previous_results, fs)

\* --------------------------------------------------- the tracker (55 - 79)
\* Line 56; a title is its sequence of words.
title == <<"[Bot]", "Flaky", "Test(s)", "Identified">>

\* Line 57, creator="app/github-actions".
Automation == "app/github-actions"

\* Python's `needle in hay` on strings: needle occurs as a contiguous part.
Contains(hay, needle) ==
    \E k \in 0..(Len(hay) - Len(needle)) :
        SubSeq(hay, k + 1, k + Len(needle)) = needle

\* Line 59: filter(lambda i: title in i["title"], ...), order kept.
TitleFilter(seq) == SelectSeq(seq, LAMBDA issue : Contains(issue.title, title))

\* The tracker's answer to issues.get(creator=...): the issues of that creator.
ByCreator(seq, who) == SelectSeq(seq, LAMBDA issue : issue.creator = who)

\* CaseLines with the count of the records in place of the set of line 68.
CaseLinesNoSet(cls, cases, n) ==
    [k \in 1..Len(cases) |->
        [test   |-> <<cls, cases[k].name>>,
         failed |-> Len(cases[k].failures),
         over   |-> n,
         unique |-> Len(cases[k].failures)]]

\* Lines 65-69: the summary lines of one class, in the order of its cases.
CaseLines(cls, cases, n) ==
    [k \in 1..Len(cases) |->
        [test   |-> <<cls, cases[k].name>>,
         failed |-> Len(cases[k].failures),
         over   |-> n,
         unique |-> Cardinality({ cases[k].failures[j].failure :
                                     j \in 1..Len(cases[k].failures) })]]

\* Lines 65-69: the summary lines of all classes, in the order of results.
RECURSIVE BodyLines(_, _)
BodyLines(res, n) ==
    IF res = <<>> THEN <<>>
    ELSE CaseLines(Head(res).cls, Head(res).cases, n) \o BodyLines(Tail(res), n)

\* Lines 63-69: the body, the commit of the header and the summary lines.
Body(res, n, commit) == [commit |-> commit, lines |-> BodyLines(res, n)]

Issue(number, t, creator, body) ==
    [number |-> number, title |-> t, creator |-> creator, body |-> body]

OldBody == [commit |-> "old", lines |-> <<>>]

\* Issues the tracker can hold before the first invocation.
Trackers ==
    { <<>>,
      <<Issue(1, title, Automation, OldBody)>>,
      <<Issue(2, title, Automation, OldBody), Issue(1, title, Automation, OldBody)>>,
      <<Issue(2, <<"Re:">> \o title, Automation, OldBody)>>,
      <<Issue(2, <<"Re:">> \o title \o <<"(old)">>, Automation, OldBody),
        Issue(1, title, Automation, OldBody)>>,
      <<Issue(1, title, "octocat", OldBody)>>,
      <<Issue(1, <<"Build", "broken">>, Automation, OldBody)>> }

\* The number the tracker gives to the next created issue.
NextNumber(seq) ==
    IF seq = <<>> THEN 1
    ELSE 1 + CHOOSE m \in { seq[k].number : k \in 1..Len(seq) } :
                 \A k \in 1..Len(seq) : seq[k].number <= m

\* GITHUB_SHA of the r-th invocation.
Commit(r) == <<"sha", r>>

\* ---------------------------------------------------------------- Init
NoProcess == [returncode |-> 0, stdout |-> <<>>, stderr |-> <<>>]

InitProcess ==
    /\ pc = "loop"
    /\ i = 0
    /\ process = NoProcess
    /\ results = <<>>
    /\ existing_issues = <<>>
    /\ execs = <<>>
    /\ parsed = <<>>
    /\ calls = <<>>

Init ==
    /\ InitProcess
    /\ iterations \in 1..MaxIter
    /\ ff \in BOOLEAN
    /\ reportDir \in { [exists |-> FALSE, entries |-> <<>>, by |-> -1],
                       [exists |-> TRUE, entries |-> <<AzBoom>>, by |-> -1] }
    /\ files = <<>>
    /\ issues \in Trackers
    /\ tracker0 = issues
    /\ run = 1
    /\ sha = Commit(1)
    /\ created = {}

\* ------------------------------------------------------- main (31 - 79)
\* Line 31: where main() is after iteration j ended without a break.
AfterIteration(j) == IF j + 1 < iterations THEN "loop" ELSE "check"

\* Lines 31-35, 46-47: one execution of the command.  The command exits
\* with some code and leaves the report directory as it was or rewrites it.
RunCommand ==
    /\ pc = "loop"
    /\ i < iterations
    /\ \E rc \in {0, 1} :
        /\ process' = [returncode |-> rc,
                       stdout |-> <<"stdout", i>>, stderr |-> <<"stderr", i>>]
        /\ \/ UNCHANGED reportDir
           \/ \E r \in (IF rc = 0 THEN PassReports ELSE FailReports) :
                 reportDir' = [exists |-> TRUE, entries |-> r, by |-> i]
        /\ IF rc # 0
           THEN pc' = "save" /\ i' = i
           ELSE pc' = AfterIteration(i) /\ i' = i + 1
    /\ execs' = Append(execs, [i |-> i, returncode |-> process'.returncode])
    /\ UNCHANGED <<iterations, ff, results, files, issues, existing_issues,
                   sha, run, tracker0, parsed, calls, created>>

\* SaveOutput without the write of the full stderr (lines 40-41 dropped).
SaveOutputNoStderr ==
    /\ pc = "save"
    /\ files' = WriteFile(files,
                    FileName(i + 1, <<>>, "full-stdout"), process.stdout)
    /\ pc' = "parse"
    /\ UNCHANGED <<iterations, ff, i, process, results, reportDir, issues,
                   existing_issues, sha, run, tracker0, execs, parsed, calls,
                   created>>

\* Lines 36-41: the full stdout and stderr of the failed iteration.
SaveOutput ==
    /\ pc = "save"
    /\ files' = WriteFile(WriteFile(files,
                    FileName(i + 1, <<>>, "full-stdout"), process.stdout),
                    FileName(i + 1, <<>>, "full-stderr"), process.stderr)
    /\ pc' = "parse"
    /\ UNCHANGED <<iterations, ff, i, process, results, reportDir, issues,
                   existing_issues, sha, run, tracker0, execs, parsed, calls, created>>

\* Lines 43-45: the parser call and the fail-fast break.  An exception of
\* the parser leaves main() with a traceback.
ParseResults ==
    /\ pc = "parse"
    /\ LET r == parse_test_results(i, results, files, reportDir) IN
        /\ results' = r.results
        /\ files' = r.files
        /\ IF r.raised THEN pc' = "error" /\ i' = i
           ELSE IF ff THEN pc' = "check" /\ i' = i
           ELSE pc' = AfterIteration(i) /\ i' = i + 1
    /\ parsed' = Append(parsed, [iteration |-> i, dir |-> reportDir])
    /\ UNCHANGED <<iterations, ff, process, reportDir, issues,
                   existing_issues, sha, run, tracker0, execs, calls, created>>

\* CheckResults without the early return of lines 49-50.
CheckResultsNoReturn ==
    /\ pc = "check"
    /\ pc' = "list"
    /\ UNCHANGED <<iterations, ff, i, process, results, reportDir, files,
                   issues, existing_issues, sha, run, tracker0, execs, parsed,
                   calls, created>>

\* Lines 49-53: nothing to report when no test failed.
CheckResults ==
    /\ pc = "check"
    /\ pc' = IF Len(results) = 0 THEN "done" ELSE "list"
    /\ UNCHANGED <<iterations, ff, i, process, results, reportDir, files,
                   issues, existing_issues, sha, run, tracker0, execs, parsed, calls,
                   created>>

Call(op, number, status) == [op |-> op, number |-> number, status |-> status]

\* Lines 55-61: the list call.  The tracker answers 200 with the issues of
\* the creator, answers with an error status, or the transport raises.
ListIssues ==
    /\ pc = "list"
    /\ \E status \in {200, 401, 0} :
        /\ calls' = Append(calls, Call("get", 0, status))
        /\ IF status = 0
           THEN pc' = "error" /\ UNCHANGED existing_issues
           ELSE /\ pc' = "write"
                /\ existing_issues' =
                      IF status = 200
                      THEN TitleFilter(ByCreator(issues, Automation))
                      ELSE <<>>
    /\ UNCHANGED <<iterations, ff, i, process, results, reportDir, files,
                   issues, sha, run, tracker0, execs, parsed, created>>

\* Lines 71-75: update of the first issue found; the answer is printed.
PatchIssue ==
    /\ pc = "write"
    /\ existing_issues # <<>>
    /\ LET issue_number == existing_issues[1].number
           body == Body(results, iterations, sha)
       IN \E status \in {200, 401, 0} :
            /\ calls' = Append(calls, Call("patch", issue_number, status))
            /\ issues' = IF status = 200
                         THEN [k \in 1..Len(issues) |->
                                 IF issues[k].number = issue_number
                                 THEN [issues[k] EXCEPT !.title = title,
                                                        !.body = body]
                                 ELSE issues[k]]
                         ELSE issues
            /\ pc' = IF status = 0 THEN "error" ELSE "done"
    /\ UNCHANGED <<iterations, ff, i, process, results, reportDir, files,
                   existing_issues, sha, run, tracker0, execs, parsed, created>>

\* Lines 76-79: creation of a new issue; the answer is printed.
PostIssue ==
    /\ pc = "write"
    /\ existing_issues = <<>>
    /\ LET number == NextNumber(issues)
           body == Body(results, iterations, sha)
       IN \E status \in {201, 401, 0} :
            /\ calls' = Append(calls, Call("post", number, status))
            /\ issues' = IF status = 201
                         THEN <<Issue(number, title, Automation, body)>> \o issues
                         ELSE issues
            /\ created' = IF status = 201 THEN created \cup {number} ELSE created
            /\ pc' = IF status = 0 THEN "error" ELSE "done"
    /\ UNCHANGED <<iterations, ff, i, process, results, reportDir, files,
                   existing_issues, sha, run, tracker0, execs, parsed>>

\* Lines 115-116: the next invocation of the script, by a later workflow
\* run: same arguments and tracker, fresh process and workspace.
Restart ==
    /\ pc \in {"done", "error"}
    /\ run < MaxRuns
    /\ pc' = "loop"
    /\ i' = 0
    /\ process' = NoProcess
    /\ results' = <<>>
    /\ existing_issues' = <<>>
    /\ execs' = <<>>
    /\ parsed' = <<>>
    /\ calls' = <<>>
    /\ reportDir' = [exists |-> FALSE, entries |-> <<>>, by |-> -1]
    /\ files' = <<>>
    /\ run' = run + 1
    /\ sha' = Commit(run + 1)
    /\ UNCHANGED <<iterations, ff, issues, tracker0, created>>

Next ==
    \/ RunCommand
    \/ SaveOutput
    \/ ParseResults
    \/ CheckResults
    \/ ListIssues
    \/ PatchIssue
    \/ PostIssue

Spec == Init /\ [][Next]_vars

NextRerun == Next \/ Restart

\* Repeated invocations, each of one iteration.
InitRerun == Init /\ iterations = 1

SpecRerun == InitRerun /\ [][NextRerun]_vars

\* ================================================================ claims
\* The run loop of lines 31-47 has been left without an exception.
LoopOver == pc \in {"check", "list", "write", "done"} \/ calls # <<>>

\* main() is no longer inside the run loop (it ended, or an exception left it).
LoopLeft == pc \notin {"loop", "save", "parse"}

\* The executions of the command that exited nonzero.
FailedExecs == { k \in 1..Len(execs) : execs[k].returncode # 0 }

\* C1: with N = iterations, without fail-fast the command is executed
\* exactly N times; with fail-fast and a nonzero exit the number of
\* executions is the index of the first failing iteration plus one; with
\* fail-fast and no failure it is N; no iteration index is executed twice.
C1_ExecutionCount ==
    LoopLeft =>
        /\ \A j, k \in 1..Len(execs) : j # k => execs[j].i # execs[k].i
        /\ ~ff => Len(execs) = iterations
        /\ (ff /\ FailedExecs # {}) =>
              \E f \in FailedExecs :
                 /\ \A g \in FailedExecs : f <= g
                 /\ Len(execs) = execs[f].i + 1
        /\ (ff /\ FailedExecs = {}) => Len(execs) = iterations

\* The matching tracking issues of a tracker: marker title, automation creator.
Matching(seq) ==
    SelectSeq(seq, LAMBDA issue : issue.title = title /\ issue.creator = Automation)

\* The last step of the reconciler: the patch or post call is made.
WriteStep == pc = "write" /\ pc' # "write"

\* The operations of the write calls (patch, post) made so far.
WriteOps(cs) == { cs[k].op : k \in { j \in 1..Len(cs) : cs[j].op # "get" } }

\* C2: when results is non-empty and the tracker holds a matching tracking
\* issue, the invocation makes exactly one update call, addressed to the
\* first matching issue returned, makes no create call, and leaves every
\* other issue unmodified.
C2_UpdateFirstMatching ==
    [][ (WriteStep /\ Matching(issues) # <<>>) =>
           /\ calls' = Append(calls, calls'[Len(calls')])
           /\ calls'[Len(calls')].op = "patch"
           /\ calls'[Len(calls')].number = Matching(issues)[1].number
           /\ WriteOps(calls') = {"patch"}
           /\ Len(issues') = Len(issues)
           /\ \A k \in 1..Len(issues) :
                 issues[k].number # Matching(issues)[1].number
                    => issues'[k] = issues[k] ]_vars

\* C3: starting from a tracker without a matching issue, the reconciler
\* creates at most one tracking issue over all invocations, and every update
\* of a later invocation targets the issue that was created.
C3_SingleTrackingIssue ==
    Matching(tracker0) = <<>> =>
        /\ Cardinality(created) <= 1
        /\ \A k \in 1..Len(calls) :
              (created # {} /\ calls[k].op = "patch")
                 => calls[k].number \in created

\* C4: a tracker call that fails (error status or transport exception)
\* ends the invocation in the error state; in particular no create follows
\* a failed list call.
C4_TrackerErrorsSurface ==
    \A k \in 1..Len(calls) : calls[k].status \notin {200, 201} => pc = "error"

\* C5: the issue selected for the update has exactly the marker title and
\* was created by the automation identity.
C5_SelectedHasExactTitle ==
    pc = "write" =>
        \A k \in 1..Len(existing_issues) :
            /\ existing_issues[k].title = title
            /\ existing_issues[k].creator = Automation

\* C6: when results is empty after the run loop, no tracker call is made
\* and the issues of the tracker are unchanged.
C6_EmptyResultsNoCall ==
    (LoopLeft /\ results = <<>>) =>
        /\ pc \in {"check", "done"}
        /\ calls = <<>>
        /\ issues = tracker0

\* All iterations failed without an attributable record, the invocation has
\* returned and the tracker holds a tracking issue.
C6_Witness ==
    /\ pc = "done"
    /\ results = <<>>
    /\ Len(parsed) = iterations
    /\ Matching(issues) # <<>>

\* The tests of the entries that the parser records, in report order.
RECURSIVE RecordedTests(_)
RecordedTests(entries) ==
    IF entries = <<>> THEN <<>>
    ELSE (IF FailureText(Head(entries)) # None
          THEN <<<<Head(entries).classname, Head(entries).name>>>>
          ELSE <<>>) \o RecordedTests(Tail(entries))

\* The tests recorded by all parser calls so far, in the order of recording.
RECURSIVE AllRecorded(_)
AllRecorded(ps) ==
    IF ps = <<>> THEN <<>>
    ELSE (IF Head(ps).dir.exists THEN RecordedTests(Head(ps).dir.entries)
          ELSE <<>>) \o AllRecorded(Tail(ps))

\* A sequence without its repetitions: first occurrences, order kept.
RECURSIVE FirstSeen(_)
FirstSeen(seq) ==
    IF seq = <<>> THEN <<>>
    ELSE LET front == FirstSeen(SubSeq(seq, 1, Len(seq) - 1))
             last  == seq[Len(seq)]
         IN IF \E k \in 1..Len(front) : front[k] = last
            THEN front ELSE Append(front, last)

\* C7: when results is non-empty and the tracker holds no matching tracking
\* issue, the invocation makes exactly one create call and no update call,
\* and the created body holds the commit and exactly one summary line per
\* test of results, in first-seen order.
C7_CreateWithOrderedBody ==
    [][ (WriteStep /\ Matching(issues) = <<>>) =>
           /\ calls' = Append(calls, calls'[Len(calls')])
           /\ calls'[Len(calls')].op = "post"
           /\ WriteOps(calls') = {"post"}
           /\ calls'[Len(calls')].status = 201 =>
                 /\ issues'[1].body.commit = sha
                 /\ [k \in 1..Len(issues'[1].body.lines) |->
                        issues'[1].body.lines[k].test]
                       = FirstSeen(AllRecorded(parsed)) ]_vars

\* The report seen by parser call p holds an entry of the test (c, n) that
\* carries a failure element or an error element.
FailedIn(p, c, n) ==
    /\ p.dir.exists
    /\ \E k \in 1..Len(p.dir.entries) :
          /\ p.dir.entries[k].classname = c
          /\ p.dir.entries[k].name = n
          /\ p.dir.entries[k].failure.present \/ p.dir.entries[k].error.present

\* C8: after the run loop a test is a key of results if and only if its
\* report entry carried a failure or an error element in some failing
\* iteration, whatever the text of the element; every key has records.
C8_KeyIffFailed ==
    LoopOver =>
        \A t \in TestIds :
            /\ IsKey(results, t[1], t[2])
                  <=> \E k \in 1..Len(parsed) : FailedIn(parsed[k], t[1], t[2])
            /\ IsKey(results, t[1], t[2]) => Failures(results, t[1], t[2]) # <<>>

\* C9: the records of a test hold strictly increasing iteration indices, and
\* there are as many as iterations in which the test failed or errored.
C9_OneRecordPerIteration ==
    LoopOver =>
        \A t \in TestIds :
            LET failures == Failures(results, t[1], t[2]) IN
            /\ \A j, k \in 1..Len(failures) :
                  j < k => failures[j].iteration < failures[k].iteration
            /\ Len(failures) =
                  Cardinality({ k \in 1..Len(parsed) :
                                   FailedIn(parsed[k], t[1], t[2]) })

\* The full stdout and stderr of iteration j are in the output directory.
HasFullOutput(j) ==
    /\ FileName(j + 1, <<>>, "full-stdout") \in DOMAIN files
    /\ files[FileName(j + 1, <<>>, "full-stdout")] = <<"stdout", j>>
    /\ FileName(j + 1, <<>>, "full-stderr") \in DOMAIN files
    /\ files[FileName(j + 1, <<>>, "full-stderr")] = <<"stderr", j>>

\* C10: the full stdout and stderr of every iteration that exited nonzero
\* are saved before the parser is called for it and stay saved whatever the
\* parser finds or does; an iteration that exited zero is not parsed.
C10_OutputSavedBeforeParse ==
    /\ \A k \in FailedExecs :
          (pc = "save" /\ k = Len(execs)) \/ HasFullOutput(execs[k].i)
    /\ pc = "parse" => HasFullOutput(i)
    /\ \A k \in 1..Len(parsed) :
          /\ HasFullOutput(parsed[k].iteration)
          /\ \E j \in FailedExecs : execs[j].i = parsed[k].iteration

\* The parser found no report directory in one iteration and raised in a
\* later one, after an iteration that passed.
C10_Witness ==
    /\ pc = "error"
    /\ calls = <<>>
    /\ \E k \in 1..Len(parsed) : ~parsed[k].dir.exists
    /\ \E k \in 1..Len(execs) : execs[k].returncode = 0
    /\ HasFullOutput(i)

\* C11: without fail-fast nothing in an iteration or in the parser aborts
\* the run: whatever the exit codes and the reports (missing directory,
\* entries without captured output, elements without text), all iterations
\* are executed and main() reaches the reconciliation without an exception.
C11_NoAbortWithoutFailFast ==
    ~ff =>
        /\ (pc = "error" => calls # <<>>)
        /\ (LoopLeft => Len(execs) = iterations)

\* C12: the index in the names of the full-stdout and full-stderr files of
\* a failing iteration is the index stored in the records of that iteration
\* and used in the names of its per-test files.
C12_OneIndexPerIteration ==
    \A t \in TestIds :
        LET failures == Failures(results, t[1], t[2]) IN
        \A k \in 1..Len(failures) :
            \A f \in DOMAIN files :
                (/\ f.kind \in {"full-stdout", "full-stderr"}
                 /\ files[f][2] = failures[k].iteration)
                    => f.idx = failures[k].iteration

\* The last tracker call of the invocation wrote an issue.
IssueWritten ==
    /\ pc = "done"
    /\ calls # <<>>
    /\ calls[Len(calls)].op \in {"patch", "post"}
    /\ calls[Len(calls)].status \in {200, 201}

\* The body of the issue that the last tracker call wrote.
WrittenBody ==
    LET number == calls[Len(calls)].number
        k == CHOOSE j \in 1..Len(issues) : issues[j].number = number
    IN issues[k].body

\* The distinct failure texts of a sequence of records.
Messages(failures) == { failures[k].failure : k \in 1..Len(failures) }

\* C13: the summary line of every test of results reports k, the length of
\* the test's record sequence, and u, the number of distinct failure texts
\* of that sequence, and 1 <= u <= k.
C13_SummaryCounts ==
    IssueWritten =>
        /\ \A t \in TestIds :
              IsKey(results, t[1], t[2]) =>
                 \E k \in 1..Len(WrittenBody.lines) : WrittenBody.lines[k].test = t
        /\ \A k \in 1..Len(WrittenBody.lines) :
              LET line == WrittenBody.lines[k]
                  failures == Failures(results, line.test[1], line.test[2])
              IN /\ line.failed = Len(failures)
                 /\ line.unique = Cardinality(Messages(failures))
                 /\ 1 <= line.unique
                 /\ line.unique <= line.failed

\* An issue was written whose line for A.x reports three failures with two
\* distinct texts (timeout, timeout, boom).
C13_Witness ==
    /\ IssueWritten
    /\ \E k \in 1..Len(WrittenBody.lines) :
          /\ WrittenBody.lines[k].test = <<"A", "x">>
          /\ WrittenBody.lines[k].failed = 3
          /\ WrittenBody.lines[k].unique = 2
    /\ Messages(Failures(results, "A", "x")) = {"timeout", "boom"}

C15_RecordsFromOwnReport ==
    \A k \in 1..Len(parsed) :
        (/\ parsed[k].dir.exists
         /\ RecordedTests(parsed[k].dir.entries) # <<>>)
            => parsed[k].dir.by = parsed[k].iteration

\* C16: the iteration count of every summary line of the written body is
\* the number of executions of the command in this invocation, so the
\* failure count of a line never exceeds it.
C16_ReportedIterations ==
    IssueWritten =>
        \A k \in 1..Len(WrittenBody.lines) :
            /\ WrittenBody.lines[k].over = Len(execs)
            /\ WrittenBody.lines[k].failed <= WrittenBody.lines[k].over

====
